---- MODULE Spec2Model ----
(***************************************************************************)
(* Model of the fetch / cache / rate-limit / retry pipeline of app.py:     *)
(* CACHE with get_from_cache / save_to_cache, the sliding-window rate      *)
(* limiter _rate_limit_wait, and fetch_api run by concurrent workers.      *)
(* Time is the wall clock in whole seconds.                                *)
(***************************************************************************)
EXTENDS Integers, Sequences, FiniteSets, Bags, TLC

(***************************************************************************)
(* Bounds of the model.                                                    *)
(***************************************************************************)
\* fetch_api calls made in all, by all workers
MaxCalls == 2
\* the free passage of time (Tick) stops at this clock reading
MaxTime == 125
\* upstream requests that fail (an error, a 4xx/5xx answer, a malformed body)
MaxFailures == 3
\* request-handling threads
Workers == {1, 2}
\* endpoint paths requested
Endpoints == {"/anime/x"}
\* cache classes the requests declare
Classes == {"server"}
\* amounts of time that may pass between two steps
TickSteps == {59, 60, 61}
\* proxy_image requests made in all, by all workers
MaxImageCalls == 3
\* clear_image_cache requests made in all
MaxClears == 1
\* image urls requested
Urls == {"u1"}

(***************************************************************************)
(* Program constants.                                                      *)
(***************************************************************************)
MAX_RPM == 55
\* "now - _req_times[0] > 60"
WINDOW == 60
\* "wait = 61 - (now - _req_times[0])"
WAIT_BASE == 61
\* admissions already in the rate window at the start (see Init)
PreAdmitted == MAX_RPM - 1
\* "for attempt in range(3)"
ATTEMPTS == 3
\* "wait = (attempt + 1) * 6"
LIMITED_BACKOFF == 6
\* "time.sleep(3)"
ERROR_BACKOFF == 3
\* "CACHE_DURATION.get(cache_type, 600)"
DEFAULT_DURATION == 600

CACHE_DURATION ==
    [c \in {"home", "ongoing", "completed", "schedule", "unlimited", "genre",
            "anime", "episode", "search", "server", "batch"} |->
        CASE c = "home"      -> 600
          [] c = "ongoing"   -> 600
          [] c = "completed" -> 900
          [] c = "schedule"  -> 3600
          [] c = "unlimited" -> 3600
          [] c = "genre"     -> 3600
          [] c = "anime"     -> 1800
          [] c = "episode"   -> 3600
          [] c = "search"    -> 300
          [] c = "server"    -> 120
          [] c = "batch"     -> 1800]

\* IMAGE_CACHE_DURATION = timedelta(hours=6), in seconds
IMAGE_CACHE_DURATION == 6 * 3600
\* the mimetype used when the remote sends no Content-Type
DEFAULT_MIMETYPE == "image/jpeg"

\* Python's None: the absent result of get_from_cache, the parsed JSON null,
\* and the initial last_error
None == "None"
\* a key with no entry in the CACHE dict
NoEntry == [present |-> FALSE]

\* cache_key = f"{cache_type}_{endpoint}": no class name holds "_", so the
\* key determines the pair
Keys == (DOMAIN CACHE_DURATION) \X Endpoints

(***************************************************************************)
(* The upstream's answers to one requests.get.                             *)
(***************************************************************************)
Statuses == {200, 403, 429, 500}
\* response bodies: two JSON documents, the JSON null, and text that is no JSON
Bodies == {"a", "b", "null", "<html>"}
Responses ==
    {[raised |-> TRUE, status |-> 0, body |-> "timeout"]}
    \cup {[raised |-> FALSE, status |-> s, body |-> b] : s \in Statuses, b \in Bodies}

(***************************************************************************)
(* The remote's answers to the image proxy's requests.get.                 *)
(***************************************************************************)
\* an answer with a body, sent with a Content-Type header or with none (""),
\* or what requests.get / raise_for_status raise: a Timeout, another
\* RequestException, an exception of another class
ImgResponses ==
    {[kind |-> "ok", content |-> "img1", ctype |-> "image/png"],
     [kind |-> "ok", content |-> "img2", ctype |-> ""]}
    \cup {[kind |-> k, content |-> "", ctype |-> ""] :
             k \in {"Timeout", "RequestException", "Exception"}}

VARIABLES
    clock,       \* time.time() / datetime.now()
    CACHE,       \* cache_key -> (cached_time, cache_type, data)
    _req_times,  \* the rate window
    _req_lock,   \* the worker holding _req_lock, 0 when free
    pc,          \* each worker's position in fetch_api
    call,        \* each worker's running fetch_api call: its locals and its trace
    wake,        \* the clock reading at which a sleeping worker's time.sleep ends
    last,        \* each worker's latest returned call, as observed
    started,     \* the number of fetch_api calls each worker has made
    acq,         \* each worker's latest _rate_limit_wait, as observed
    admitted,    \* the admissions of the trailing 60 seconds: time -> how many
    requested,   \* the upstream requests of the trailing 60 seconds, likewise
    failures,    \* the upstream requests that have failed so far
    IMAGE_CACHE, \* url -> {content, mimetype, cached_at, hits}
    ipc,         \* each worker's position in proxy_image
    ireq,        \* each worker's running proxy_image request: its locals
    iresp,       \* each worker's latest response from an image route
    istarted,    \* the number of proxy_image requests made so far
    img_gen,     \* the number of entry dicts cache_image has created so far
    clears,      \* the number of clear_image_cache requests made so far
    served       \* url -> the HIT responses served from the url's current entry

\* the state of the API pipeline apart from the clock, and of the image proxy
apivars == <<CACHE, _req_times, _req_lock, pc, call, wake, last, started,
             acq, admitted, requested, failures>>

imgvars == <<IMAGE_CACHE, ipc, ireq, iresp, istarted, img_gen, clears, served>>

vars == <<clock, apivars, imgvars>>

(***************************************************************************)
(* Helpers.                                                                *)
(***************************************************************************)
Min(S) == CHOOSE x \in S : \A y \in S : x <= y

RECURSIVE Sum(_, _)
Sum(f, S) ==
    IF S = {} THEN 0
    ELSE LET x == CHOOSE y \in S : TRUE IN f[x] + Sum(f, S \ {x})

\* the fetch_api calls made so far
Calls == Sum(started, Workers)

Max0(a, b) == IF a >= b THEN a ELSE b

\* a log of events with one more at `now`
Logged(log, now) == log (+) SetToBag({now})

\* the events of a log that lie in the 60 seconds up to `now`
Trailing(log, now) == [t \in {x \in DOMAIN log : now - x <= WINDOW} |-> log[t]]

\* how many events a log holds
Count(log) == BagCardinality(log)

\* what a call remembers of the same worker's call before it: whether that one
\* was for the same key and returned less than the class's duration ago, how
\* it ended and the requests it sent; and whether, as this call starts, CACHE
\* holds a value other than None for the key
NoPrev == [within |-> FALSE, kind |-> "none", nonnull |-> FALSE, nreq |-> 0,
           live |-> FALSE]

NoCall == [key |-> <<"", "">>, attempt |-> 0, last_error |-> None,
           nreq |-> 0, last_out |-> "none", sleeps |-> <<>>, prev |-> NoPrev]

NoResult == [key |-> <<"", "">>, kind |-> "none", value |-> None,
             message |-> "", nreq |-> 0, sleeps |-> <<>>, end |-> 0,
             prev |-> NoPrev]

\* a proxy_image request's locals: the url, the entry dict it holds as
\* `cached` (gen is the dict's identity), its requests sent; and, as observed
\* when it began, whether IMAGE_CACHE had an entry for the url and whether
\* that entry was unexpired
NoImgReq == [url |-> "", gen |-> 0, content |-> "", mimetype |-> "",
             hits |-> 0, nreq |-> 0, had |-> FALSE, fresh |-> FALSE]

\* a response of an image route: status, the X-Cache-Status header, body and
\* mimetype, the error text, total_hits (stats route); fault is an exception
\* that left the view function unhandled
NoImgResp == [route |-> "none", url |-> "", status |-> 0, xcache |-> "",
              content |-> "", mimetype |-> "", error |-> "", total_hits |-> 0,
              fault |-> FALSE, nreq |-> 0, had |-> FALSE, fresh |-> FALSE]

\* one _rate_limit_wait as observed: whether it slept, the timestamps it held
\* after pruning and the oldest of them, the admissions of the 60 seconds
\* before it, when it decided and when it was admitted (-1 until then)
NoAcq == [decided |-> FALSE, dec |-> 0, slept |-> FALSE, held |-> 0,
          prior |-> 0, oldest |-> 0, at |-> -1]

(***************************************************************************)
(* CACHE (src/app.py 62-71).                                               *)
(***************************************************************************)
MaxAge(cache_type) ==
    IF cache_type \in DOMAIN CACHE_DURATION THEN CACHE_DURATION[cache_type]
    ELSE DEFAULT_DURATION

\* "<=" for "<"
get_from_cache_inclusive(cache_key) ==
    IF CACHE[cache_key].present
       /\ clock - CACHE[cache_key].cached_time <= MaxAge(CACHE[cache_key].cache_type)
    THEN CACHE[cache_key].data
    ELSE None

get_from_cache(cache_key) ==
    IF CACHE[cache_key].present
       /\ clock - CACHE[cache_key].cached_time < MaxAge(CACHE[cache_key].cache_type)
    THEN CACHE[cache_key].data
    ELSE None

\* an entry already there is kept: the first write wins
save_to_cache_first_wins(cache_key, data, cache_type) ==
    CACHE' = IF CACHE[cache_key].present THEN CACHE
             ELSE [CACHE EXCEPT ![cache_key] =
                      [present |-> TRUE, cached_time |-> clock,
                       cache_type |-> cache_type, data |-> data]]

\* the entry is written with the default class 'home' (the cache_type
\* argument is not passed on)
save_to_cache_default_class(cache_key, data, cache_type) ==
    CACHE' = [CACHE EXCEPT ![cache_key] =
                 [present |-> TRUE, cached_time |-> clock,
                  cache_type |-> "home", data |-> data]]

save_to_cache(cache_key, data, cache_type) ==
    CACHE' = [CACHE EXCEPT ![cache_key] =
                 [present |-> TRUE, cached_time |-> clock,
                  cache_type |-> cache_type, data |-> data]]

(***************************************************************************)
(* The rate limiter (src/app.py 46-56).                                    *)
(***************************************************************************)
\* "if" for "while": at most one timestamp is dropped
PruneOne(times, now) ==
    IF times # <<>> /\ now - Head(times) > WINDOW THEN Tail(times) ELSE times

RECURSIVE Prune(_, _)
Prune(times, now) ==
    IF times # <<>> /\ now - Head(times) > WINDOW
    THEN Prune(Tail(times), now)
    ELSE times

\* ">" for ">="
WindowFullOffByOne(times) == Len(times) > MAX_RPM

WindowFull(times) == Len(times) >= MAX_RPM

\* 60 for 61
WaitForWindowOnly(times, now) == Max0(WINDOW - (now - Head(times)), 0)

WaitFor(times, now) == Max0(WAIT_BASE - (now - Head(times)), 0)

(***************************************************************************)
(* The initial state: nothing cached, the workers idle. The rate window    *)
(* holds the admissions of MAX_RPM - 1 earlier fetches (of endpoints       *)
(* outside Endpoints) made at clock 0, each of which sent one request; a   *)
(* Tick of 61 empties it again.                                            *)
(***************************************************************************)
\* the state after construction, and after n cold fetches of other endpoints
\* answered in second 0
InitAfter(n) ==
    /\ clock = 0
    /\ CACHE = [k \in Keys |-> NoEntry]
    /\ _req_times = [i \in 1..n |-> 0]
    /\ admitted = [t \in {0} |-> n]
    /\ requested = [t \in {0} |-> n]
    /\ failures = 0
    /\ _req_lock = 0
    /\ pc = [w \in Workers |-> "idle"]
    /\ call = [w \in Workers |-> NoCall]
    /\ wake = [w \in Workers |-> 0]
    /\ last = [w \in Workers |-> NoResult]
    /\ started = [w \in Workers |-> 0]
    /\ acq = [w \in Workers |-> NoAcq]
    /\ IMAGE_CACHE = <<>>
    /\ ipc = [w \in Workers |-> "idle"]
    /\ ireq = [w \in Workers |-> NoImgReq]
    /\ iresp = [w \in Workers |-> NoImgResp]
    /\ istarted = 0
    /\ img_gen = 0
    /\ clears = 0
    /\ served = [u \in Urls |-> 0]

Init == InitAfter(PreAdmitted)

(***************************************************************************)
(* fetch_api (src/app.py 73-118).                                          *)
(***************************************************************************)
\* the call returns to its route handler
Return(w, c, kind, value, message) ==
    /\ last' = [last EXCEPT ![w] =
                   [key |-> c.key, kind |-> kind, value |-> value,
                    message |-> message, nreq |-> c.nreq,
                    sleeps |-> c.sleeps, end |-> clock,
                    prev |-> c.prev]]
    /\ pc' = [pc EXCEPT ![w] = "idle"]
    /\ call' = [call EXCEPT ![w] = NoCall]
    /\ acq' = [acq EXCEPT ![w] = NoAcq]

Prev(w, cache_key) ==
    [within |-> /\ last[w].key = cache_key
                /\ clock - last[w].end < CACHE_DURATION[cache_key[1]],
     kind |-> last[w].kind, nonnull |-> last[w].value # None,
     nreq |-> last[w].nreq,
     live |-> CACHE[cache_key].present /\ CACHE[cache_key].data # None]

\* the cache is not looked at: every call goes on to the limiter
FetchApiLimitFirst(w, endpoint, cache_type) ==
    LET cache_key == <<cache_type, endpoint>>
        c == [NoCall EXCEPT !.key = cache_key, !.prev = Prev(w, cache_key)]
    IN /\ pc[w] = "idle"
       /\ Calls < MaxCalls
       /\ started' = [started EXCEPT ![w] = @ + 1]
       /\ pc' = [pc EXCEPT ![w] = "rate_limit"]
       /\ call' = [call EXCEPT ![w] = c]
       /\ UNCHANGED <<clock, CACHE, _req_times, _req_lock, wake, last, acq,
                      admitted, requested, failures>>
       /\ UNCHANGED imgvars

\* lines 75-86: the cache lookup; a hit returns, a miss goes on to the limiter
FetchApi(w, endpoint, cache_type) ==
    LET cache_key == <<cache_type, endpoint>>
        cached_data == get_from_cache(cache_key)
        c == [NoCall EXCEPT !.key = cache_key, !.prev = Prev(w, cache_key)]
    IN /\ pc[w] = "idle"
       /\ Calls < MaxCalls
       /\ started' = [started EXCEPT ![w] = @ + 1]
       /\ IF cached_data # None
          THEN Return(w, c, "cached", cached_data, "")
          ELSE /\ pc' = [pc EXCEPT ![w] = "rate_limit"]
               /\ call' = [call EXCEPT ![w] = c]
               /\ UNCHANGED <<last, acq>>
       /\ UNCHANGED <<clock, CACHE, _req_times, _req_lock, wake, admitted,
                      requested, failures>>
       /\ UNCHANGED imgvars

\* lines 47-55: take the lock, prune, decide whether to sleep
RateLimitEnter(w) ==
    LET pruned == Prune(_req_times, clock)
    IN /\ pc[w] = "rate_limit"
       /\ _req_lock = 0
       /\ _req_lock' = w
       /\ _req_times' = pruned
       /\ acq' = [acq EXCEPT ![w] =
                     [decided |-> TRUE, dec |-> clock, slept |-> WindowFull(pruned),
                      held |-> Len(pruned), prior |-> Count(admitted),
                      oldest |-> IF pruned = <<>> THEN clock ELSE Head(pruned),
                      at |-> -1]]
       /\ IF WindowFull(pruned)
          THEN /\ pc' = [pc EXCEPT ![w] = "rl_sleep"]
               /\ wake' = [wake EXCEPT ![w] = clock + WaitFor(pruned, clock)]
          ELSE /\ pc' = [pc EXCEPT ![w] = "rl_append"]
               /\ UNCHANGED wake
       /\ UNCHANGED <<clock, CACHE, call, last, started, admitted, requested, failures>>
       /\ UNCHANGED imgvars

\* line 55: time.sleep returns
RateLimitWake(w) ==
    /\ pc[w] = "rl_sleep"
    /\ clock >= wake[w]
    /\ pc' = [pc EXCEPT ![w] = "rl_append"]
    /\ wake' = [wake EXCEPT ![w] = 0]
    /\ UNCHANGED <<clock, CACHE, _req_times, _req_lock, call, last, started,
                   acq, admitted, requested, failures>>
    /\ UNCHANGED imgvars

\* line 56: record the admission and leave the lock
RateLimitAppend(w) ==
    /\ pc[w] = "rl_append"
    /\ _req_times' = Append(_req_times, clock)
    /\ _req_lock' = 0
    /\ admitted' = Logged(admitted, clock)
    /\ acq' = [acq EXCEPT ![w].at = clock]
    /\ pc' = [pc EXCEPT ![w] = "request"]
    /\ UNCHANGED <<clock, CACHE, call, wake, last, started, requested,
                   failures>>
    /\ UNCHANGED imgvars

\* the body of a 2xx response parsed by response.json(): the JSON null is
\* Python's None, text that is no JSON raises
JsonFails(body) == body = "<html>"

ParseJson(body) == IF body = "null" THEN None ELSE body

\* the exception one attempt raises inside the try block ("" when it raises
\* none): requests.get itself, raise_for_status on a 4xx/5xx answer,
\* response.json on a malformed body
Raised(resp) ==
    IF resp.raised THEN "Timeout"
    ELSE IF resp.status >= 400 THEN "HTTPError"
    ELSE IF JsonFails(resp.body) THEN "JSONDecodeError"
    ELSE ""

\* line 97
RateLimited(resp) == ~resp.raised /\ resp.status \in {403, 429}

\* how the attempt ended, for the call's trace
Outcome(resp) ==
    IF resp.raised THEN "transport"
    ELSE IF RateLimited(resp) THEN "limited"
    ELSE IF resp.status >= 400 THEN "http"
    ELSE IF JsonFails(resp.body) THEN "json"
    ELSE "ok"

\* str(last_error)
Str(e) ==
    CASE e = None -> "None"
      [] e = "Timeout" -> "Read timed out."
      [] e = "HTTPError" -> "500 Server Error"
      [] e = "JSONDecodeError" -> "Expecting value"

\* a flat 6 seconds
LimitedWaitFlat(attempt) == LIMITED_BACKOFF

\* line 98
LimitedWait(attempt) == (attempt + 1) * LIMITED_BACKOFF

\* the final attempt sleeps too
SleepsAfterErrorAlways(attempt) == attempt < ATTEMPTS

\* line 110
SleepsAfterError(attempt) == attempt < ATTEMPTS - 1

\* lines 90-111: one pass of the retry loop
Request(w, resp) ==
    LET c == call[w]
        sent == [c EXCEPT !.nreq = @ + 1, !.last_out = Outcome(resp)]
    IN /\ pc[w] = "request"
       /\ requested' = Logged(requested, clock)
       /\ Outcome(resp) # "ok" => failures < MaxFailures
       /\ failures' = IF Outcome(resp) # "ok" THEN failures + 1 ELSE failures
       /\ IF RateLimited(resp)
          THEN \* lines 97-101: sleep, then continue
               /\ call' = [call EXCEPT ![w] =
                              [sent EXCEPT !.sleeps = Append(@, LimitedWait(c.attempt))]]
               /\ wake' = [wake EXCEPT ![w] = clock + LimitedWait(c.attempt)]
               /\ pc' = [pc EXCEPT ![w] = "limited_sleep"]
               /\ UNCHANGED <<CACHE, last, acq>>
          ELSE IF Raised(resp) # ""
          THEN \* lines 108-111
               IF SleepsAfterError(c.attempt)
               THEN /\ call' = [call EXCEPT ![w] =
                                   [sent EXCEPT !.last_error = Raised(resp),
                                                !.sleeps = Append(@, ERROR_BACKOFF)]]
                    /\ wake' = [wake EXCEPT ![w] = clock + ERROR_BACKOFF]
                    /\ pc' = [pc EXCEPT ![w] = "error_sleep"]
                    /\ UNCHANGED <<CACHE, last, acq>>
               ELSE /\ call' = [call EXCEPT ![w] =
                                   [sent EXCEPT !.last_error = Raised(resp),
                                                !.attempt = @ + 1]]
                    /\ pc' = [pc EXCEPT ![w] = "exhausted"]
                    /\ UNCHANGED <<CACHE, wake, last, acq>>
          ELSE \* lines 104-106
               /\ save_to_cache(c.key, ParseJson(resp.body), c.key[1])
               /\ Return(w, sent, "fetched", ParseJson(resp.body), "")
               /\ UNCHANGED wake
       /\ UNCHANGED <<clock, _req_times, _req_lock, started, admitted>>
       /\ UNCHANGED imgvars

\* the loop counter is not advanced: the loop never ends
SleepWakeForever(w) ==
    /\ pc[w] \in {"limited_sleep", "error_sleep"}
    /\ clock >= wake[w]
    /\ pc' = [pc EXCEPT ![w] = "request"]
    /\ wake' = [wake EXCEPT ![w] = 0]
    /\ UNCHANGED <<clock, CACHE, _req_times, _req_lock, call, last, started, acq,
                   admitted, requested, failures>>
    /\ UNCHANGED imgvars

\* lines 100-101 and 111: time.sleep returns and the loop goes to its next pass,
\* or ends after the third
SleepWake(w) ==
    /\ pc[w] \in {"limited_sleep", "error_sleep"}
    /\ clock >= wake[w]
    /\ call' = [call EXCEPT ![w].attempt = @ + 1]
    /\ pc' = [pc EXCEPT ![w] =
                 IF call[w].attempt + 1 < ATTEMPTS THEN "request" ELSE "exhausted"]
    /\ wake' = [wake EXCEPT ![w] = 0]
    /\ UNCHANGED <<clock, CACHE, _req_times, _req_lock, last, started, acq,
                   admitted, requested, failures>>
    /\ UNCHANGED imgvars

\* the fallback looks the entry up with get_from_cache, so only a fresh one
\* is served
ExhaustedFreshOnly(w) ==
    /\ pc[w] = "exhausted"
    /\ IF get_from_cache(call[w].key) # None
       THEN Return(w, call[w], "stale", CACHE[call[w].key].data, "")
       ELSE Return(w, call[w], "error", "error", Str(call[w].last_error))
    /\ UNCHANGED <<clock, CACHE, _req_times, _req_lock, wake, started,
                   admitted, requested, failures>>
    /\ UNCHANGED imgvars

\* the error payload is written to CACHE before it is returned
ExhaustedCachesError(w) ==
    /\ pc[w] = "exhausted"
    /\ IF CACHE[call[w].key].present
       THEN /\ Return(w, call[w], "stale", CACHE[call[w].key].data, "")
            /\ UNCHANGED CACHE
       ELSE /\ Return(w, call[w], "error", "error", Str(call[w].last_error))
            /\ save_to_cache(call[w].key, "error", call[w].key[1])
    /\ UNCHANGED <<clock, _req_times, _req_lock, wake, started,
                   admitted, requested, failures>>
    /\ UNCHANGED imgvars

\* lines 113-118: every attempt failed
Exhausted(w) ==
    /\ pc[w] = "exhausted"
    /\ IF CACHE[call[w].key].present
       THEN Return(w, call[w], "stale", CACHE[call[w].key].data, "")
       ELSE Return(w, call[w], "error", "error", Str(call[w].last_error))
    /\ UNCHANGED <<clock, CACHE, _req_times, _req_lock, wake, started,
                   admitted, requested, failures>>
    /\ UNCHANGED imgvars

(***************************************************************************)
(* Time. A step of code, a request and its answer included, takes no time  *)
(* at the clock's resolution: time passes while workers sleep and between  *)
(* calls.                                                                  *)
(***************************************************************************)
Sleeping == {w \in Workers : pc[w] \in {"rl_sleep", "limited_sleep", "error_sleep"}}

Advance(t) ==
    /\ clock' = t
    /\ admitted' = Trailing(admitted, t)
    /\ requested' = Trailing(requested, t)
    /\ UNCHANGED <<CACHE, _req_times, _req_lock, pc, call, wake, last, started,
                   acq, failures>>
    /\ UNCHANGED imgvars

\* time passes between two calls
Tick(d) ==
    /\ \A w \in Workers : pc[w] = "idle"
    /\ 0 < Calls /\ Calls < MaxCalls
    /\ clock + d <= MaxTime
    /\ Advance(clock + d)

\* a worker with a step of code to run
Runnable(w) ==
    \/ pc[w] \in {"rl_append", "request", "exhausted"}
    \/ pc[w] = "rate_limit" /\ _req_lock = 0
    \/ pc[w] \in {"rl_sleep", "limited_sleep", "error_sleep"} /\ wake[w] <= clock

\* time passes until the first sleeper is due
SleepPass ==
    /\ Sleeping # {}
    /\ \A w \in Workers : ~Runnable(w)
    /\ Advance(Min({wake[w] : w \in Sleeping}))

Next ==
    \/ \E w \in Workers, e \in Endpoints, c \in Classes : FetchApi(w, e, c)
    \/ \E w \in Workers : RateLimitEnter(w)
    \/ \E w \in Workers : RateLimitWake(w)
    \/ \E w \in Workers : RateLimitAppend(w)
    \/ \E w \in Workers, resp \in Responses : Request(w, resp)
    \/ \E w \in Workers : SleepWake(w)
    \/ \E w \in Workers : Exhausted(w)
    \/ \E d \in TickSteps : Tick(d)
    \/ SleepPass

Spec == Init /\ [][Next]_vars

\* the same with a full window: MAX_RPM fetches were admitted in second 0
LoadedSpec == InitAfter(MAX_RPM) /\ [][Next]_vars

(***************************************************************************)
(* Every step of a started call is taken in the end: the threads run and   *)
(* time passes.                                                            *)
(***************************************************************************)
WorkerStep(w) ==
    \/ RateLimitEnter(w)
    \/ RateLimitWake(w)
    \/ RateLimitAppend(w)
    \/ \E resp \in Responses : Request(w, resp)
    \/ SleepWake(w)
    \/ Exhausted(w)

FairSpec ==
    /\ Spec
    /\ \A w \in Workers : WF_vars(WorkerStep(w))
    /\ WF_vars(SleepPass)

(***************************************************************************)
(* The cache on its own: one entry of any class is written, time passes to *)
(* either side of the entry's expiry, get_from_cache is called.            *)
(***************************************************************************)
\* no entry is written later than this
MaxStoreTime == 2

\* save_to_cache, called for a key of any class
Store(cache_type, endpoint, data) ==
    /\ \A k \in Keys : ~CACHE[k].present
    /\ save_to_cache(<<cache_type, endpoint>>, data, cache_type)
    /\ UNCHANGED <<clock, _req_times, _req_lock, pc, call, wake, last, started,
                   acq, admitted, requested, failures>>
    /\ UNCHANGED imgvars

\* time passes: before the entry is written, and then to one second before
\* its expiry, to its expiry, to one second after
Elapse(t) ==
    /\ t > clock
    /\ \/ (\A k \in Keys : ~CACHE[k].present) /\ t <= MaxStoreTime
       \/ \E k \in Keys, j \in {-1, 0, 1} :
             /\ CACHE[k].present
             /\ t = CACHE[k].cached_time + MaxAge(CACHE[k].cache_type) + j
    /\ Advance(t)

\* get_from_cache is called and its result observed
Lookup(cache_key) ==
    /\ last' = [last EXCEPT ![1] =
                   [NoResult EXCEPT !.key = cache_key, !.kind = "lookup",
                                    !.value = get_from_cache(cache_key),
                                    !.end = clock]]
    /\ UNCHANGED <<clock, CACHE, _req_times, _req_lock, pc, call, wake, started,
                   acq, admitted, requested, failures>>
    /\ UNCHANGED imgvars

\* the clock readings Elapse chooses from
Expiries ==
    UNION {{CACHE[k].cached_time + MaxAge(CACHE[k].cache_type) + j : j \in {-1, 0, 1}} :
              k \in {k \in Keys : CACHE[k].present}}

NextCache ==
    \/ \E c \in DOMAIN CACHE_DURATION, e \in Endpoints, b \in {"a", "null"} :
          Store(c, e, ParseJson(b))
    \/ \E t \in (1..MaxStoreTime) \cup Expiries : Elapse(t)
    \/ \E k \in Keys : Lookup(k)

CacheSpec == Init /\ [][NextCache]_vars

(***************************************************************************)
(* The image proxy (src/app.py 123-227): proxy_image run by concurrent     *)
(* workers, with clear_image_cache and image_cache_stats.  A worker's      *)
(* steps are the reads and writes of IMAGE_CACHE between which another     *)
(* thread can run.                                                         *)
(***************************************************************************)
\* lines 123-129, run with no other thread in between
is_image_cached(url) ==
    /\ url \in DOMAIN IMAGE_CACHE
    /\ clock - IMAGE_CACHE[url].cached_at < IMAGE_CACHE_DURATION

\* the entry is created with a hit already counted
cache_image_hits_one(url, image_content, mimetype) ==
    /\ IMAGE_CACHE' = (url :> [content |-> image_content, mimetype |-> mimetype,
                               cached_at |-> clock, hits |-> 1,
                               gen |-> img_gen + 1]) @@ IMAGE_CACHE
    /\ img_gen' = img_gen + 1
    /\ served' = [served EXCEPT ![url] = 0]

\* lines 131-138: a new dict replaces whatever the url had
cache_image(url, image_content, mimetype) ==
    /\ IMAGE_CACHE' = (url :> [content |-> image_content, mimetype |-> mimetype,
                               cached_at |-> clock, hits |-> 0,
                               gen |-> img_gen + 1]) @@ IMAGE_CACHE
    /\ img_gen' = img_gen + 1
    /\ served' = [served EXCEPT ![url] = 0]

\* the response of worker w's proxy_image request
ImgResp(w, status, xcache, content, mimetype, error, fault, nreq) ==
    [NoImgResp EXCEPT !.route = "proxy", !.url = ireq[w].url, !.status = status,
                      !.xcache = xcache, !.content = content,
                      !.mimetype = mimetype, !.error = error, !.fault = fault,
                      !.nreq = nreq, !.had = ireq[w].had,
                      !.fresh = ireq[w].fresh]

\* the request ends with response r
Respond(w, r) ==
    /\ iresp' = [iresp EXCEPT ![w] = r]
    /\ ipc' = [ipc EXCEPT ![w] = "idle"]
    /\ ireq' = [ireq EXCEPT ![w] = NoImgReq]

\* IMAGE_CACHE[url] raises KeyError outside the try block of lines 178-206:
\* the exception leaves proxy_image
KeyErrorEscapes(w) ==
    Respond(w, ImgResp(w, 500, "", "", "", "KeyError", TRUE, 0))

\* lines 162-165: a GET arrives; without a url it is answered 400
ProxyImage(w, image_url) ==
    /\ ipc[w] = "idle"
    /\ istarted < MaxImageCalls
    /\ istarted' = istarted + 1
    /\ IF image_url = ""
       THEN /\ iresp' = [iresp EXCEPT ![w] =
                            [NoImgResp EXCEPT !.route = "proxy", !.status = 400,
                                              !.error = "URL parameter required"]]
            /\ UNCHANGED <<ipc, ireq>>
       ELSE /\ ipc' = [ipc EXCEPT ![w] = "check"]
            /\ ireq' = [ireq EXCEPT ![w] =
                           [NoImgReq EXCEPT !.url = image_url,
                                            !.had = image_url \in DOMAIN IMAGE_CACHE,
                                            !.fresh = is_image_cached(image_url)]]
            /\ UNCHANGED iresp
    /\ UNCHANGED <<clock, apivars, IMAGE_CACHE, img_gen, clears, served>>

\* line 125: url in IMAGE_CACHE
ImgCheckIn(w) ==
    /\ ipc[w] = "check"
    /\ ipc' = [ipc EXCEPT ![w] =
                  IF ireq[w].url \in DOMAIN IMAGE_CACHE THEN "age" ELSE "fetch"]
    /\ UNCHANGED <<clock, apivars, IMAGE_CACHE, ireq, iresp, istarted, img_gen,
                   clears, served>>

\* lines 126-129: the entry is read again for its cached_at
ImgCheckAge(w) ==
    /\ ipc[w] = "age"
    /\ IF ireq[w].url \notin DOMAIN IMAGE_CACHE
       THEN KeyErrorEscapes(w)
       ELSE /\ ipc' = [ipc EXCEPT ![w] =
                          IF clock - IMAGE_CACHE[ireq[w].url].cached_at
                                 < IMAGE_CACHE_DURATION
                          THEN "read" ELSE "fetch"]
            /\ UNCHANGED <<ireq, iresp>>
    /\ UNCHANGED <<clock, apivars, IMAGE_CACHE, istarted, img_gen, clears, served>>

\* lines 169-170: cached = IMAGE_CACHE[image_url], and cached.get('hits', 0)
ImgRead(w) ==
    /\ ipc[w] = "read"
    /\ IF ireq[w].url \notin DOMAIN IMAGE_CACHE
       THEN KeyErrorEscapes(w)
       ELSE LET cached == IMAGE_CACHE[ireq[w].url]
            IN /\ ireq' = [ireq EXCEPT ![w] =
                              [@ EXCEPT !.gen = cached.gen,
                                        !.content = cached.content,
                                        !.mimetype = cached.mimetype,
                                        !.hits = cached.hits]]
               /\ ipc' = [ipc EXCEPT ![w] = "write"]
               /\ UNCHANGED iresp
    /\ UNCHANGED <<clock, apivars, IMAGE_CACHE, istarted, img_gen, clears, served>>

\* the dict held as `cached` is still the url's entry
Attached(w) ==
    /\ ireq[w].url \in DOMAIN IMAGE_CACHE
    /\ IMAGE_CACHE[ireq[w].url].gen = ireq[w].gen

\* lines 170-175: cached['hits'] is stored and the HIT response built from
\* the dict; a dict no longer in IMAGE_CACHE takes the store unseen
ImgServeHit(w) ==
    /\ ipc[w] = "write"
    /\ IF Attached(w)
       THEN /\ IMAGE_CACHE' = [IMAGE_CACHE EXCEPT ![ireq[w].url].hits =
                                                      ireq[w].hits + 1]
            /\ served' = [served EXCEPT ![ireq[w].url] = @ + 1]
       ELSE UNCHANGED <<IMAGE_CACHE, served>>
    /\ Respond(w, ImgResp(w, 200, "HIT", ireq[w].content, ireq[w].mimetype,
                          "", FALSE, 0))
    /\ UNCHANGED <<clock, apivars, istarted, img_gen, clears>>

\* line 188
Mimetype(resp) == IF resp.ctype = "" THEN DEFAULT_MIMETYPE ELSE resp.ctype

\* a failed fetch falls back on the url's entry, expired or not
ImgFetchStaleFallback(w, resp) ==
    /\ ipc[w] = "fetch"
    /\ IF resp.kind = "ok"
       THEN /\ cache_image(ireq[w].url, resp.content, Mimetype(resp))
            /\ Respond(w, ImgResp(w, 200, "MISS", resp.content, Mimetype(resp),
                                  "", FALSE, ireq[w].nreq + 1))
       ELSE /\ IF ireq[w].url \in DOMAIN IMAGE_CACHE
               THEN Respond(w, ImgResp(w, 200, "HIT",
                                       IMAGE_CACHE[ireq[w].url].content,
                                       IMAGE_CACHE[ireq[w].url].mimetype,
                                       "", FALSE, ireq[w].nreq + 1))
               ELSE Respond(w, ImgResp(w, 500, "", "", "",
                                       "Failed to fetch image", FALSE,
                                       ireq[w].nreq + 1))
            /\ UNCHANGED <<IMAGE_CACHE, img_gen, served>>
    /\ UNCHANGED <<clock, apivars, istarted, clears>>

\* lines 178-206: the one requests.get and what follows from its answer
ImgFetch(w, resp) ==
    /\ ipc[w] = "fetch"
    /\ IF resp.kind = "ok"
       THEN /\ cache_image(ireq[w].url, resp.content, Mimetype(resp))
            /\ Respond(w, ImgResp(w, 200, "MISS", resp.content, Mimetype(resp),
                                  "", FALSE, ireq[w].nreq + 1))
       ELSE /\ Respond(w, ImgResp(w,
                                  IF resp.kind = "Timeout" THEN 504 ELSE 500, "",
                                  "", "",
                                  CASE resp.kind = "Timeout" -> "Request timeout"
                                    [] resp.kind = "RequestException" ->
                                           "Failed to fetch image"
                                    [] resp.kind = "Exception" -> "Internal error",
                                  FALSE, ireq[w].nreq + 1))
            /\ UNCHANGED <<IMAGE_CACHE, img_gen, served>>
    /\ UNCHANGED <<clock, apivars, istarted, clears>>

\* lines 224-227
ClearImageCache ==
    /\ clears < MaxClears
    /\ clears' = clears + 1
    /\ IMAGE_CACHE' = <<>>
    /\ served' = [u \in Urls |-> 0]
    /\ UNCHANGED <<clock, apivars, ipc, ireq, iresp, istarted, img_gen>>

\* line 212
TotalHits ==
    Sum([u \in DOMAIN IMAGE_CACHE |-> IMAGE_CACHE[u].hits], DOMAIN IMAGE_CACHE)

\* lines 210-222
ImageCacheStats(w) ==
    /\ ipc[w] = "idle"
    /\ iresp' = [iresp EXCEPT ![w] =
                    [NoImgResp EXCEPT !.route = "stats", !.status = 200,
                                      !.total_hits = TotalHits]]
    /\ UNCHANGED <<clock, apivars, IMAGE_CACHE, ipc, ireq, istarted, img_gen,
                   clears, served>>

AllImgIdle == \A w \in Workers : ipc[w] = "idle"

\* the clock readings one second before, at, and one second after the expiry
\* of an entry
ImgExpiries ==
    UNION {{IMAGE_CACHE[u].cached_at + IMAGE_CACHE_DURATION + j : j \in {-1, 0, 1}} :
              u \in DOMAIN IMAGE_CACHE}

\* time passes between two requests
ImgElapse(t) ==
    /\ AllImgIdle
    /\ istarted < MaxImageCalls
    /\ t > clock
    /\ clock' = t
    /\ UNCHANGED <<apivars, imgvars>>

ImageNext ==
    \/ \E w \in Workers, u \in Urls \cup {""} : ProxyImage(w, u)
    \/ \E w \in Workers : ImgCheckIn(w)
    \/ \E w \in Workers : ImgCheckAge(w)
    \/ \E w \in Workers : ImgRead(w)
    \/ \E w \in Workers : ImgServeHit(w)
    \/ \E w \in Workers, resp \in ImgResponses : ImgFetch(w, resp)
    \/ ClearImageCache
    \/ \E w \in Workers : ImageCacheStats(w)
    \/ \E t \in ImgExpiries : ImgElapse(t)

ImageSpec == Init /\ [][ImageNext]_vars

\* the image routes handled one request at a time
SeqImageNext ==
    \/ \E w \in Workers, u \in Urls \cup {""} : AllImgIdle /\ ProxyImage(w, u)
    \/ \E w \in Workers : ImgCheckIn(w)
    \/ \E w \in Workers : ImgCheckAge(w)
    \/ \E w \in Workers : ImgRead(w)
    \/ \E w \in Workers : ImgServeHit(w)
    \/ \E w \in Workers, resp \in ImgResponses : ImgFetch(w, resp)
    \/ AllImgIdle /\ ClearImageCache
    \/ \E w \in Workers : AllImgIdle /\ ImageCacheStats(w)
    \/ \E t \in ImgExpiries : ImgElapse(t)

SeqImageSpec == Init /\ [][SeqImageNext]_vars

(***************************************************************************)
(* The rate limiter's claims.                                              *)
(***************************************************************************)

\* C1: every upstream request, retries included, is preceded by a rate-limiter
\* acquire of its own, so at most 55 upstream requests fall in any trailing
\* 60 seconds.
C1_UpstreamRequestsBounded ==
    /\ Count(requested) <= Count(admitted)
    /\ Count(requested) <= MAX_RPM

\* C2: under any interleaving of the callers of _rate_limit_wait, at most 55
\* admissions fall in any trailing 60 seconds.
C2_AdmissionsBounded == Count(admitted) <= MAX_RPM

\* a caller that found the window full has slept and been admitted while
\* another held or awaited its own admission
C2_Witness ==
    \E w \in Workers :
        /\ acq[w].slept /\ acq[w].at >= 0
        /\ \E v \in Workers \ {w} : started[v] > 0

\* C3 as stated: _req_times never retains more than 55 timestamps.
C3_WindowAtMostMaxRpm == Len(_req_times) <= MAX_RPM

\* C3 as amended: _req_times retains at most 56 timestamps, and whenever it
\* holds more than 55 its oldest one is more than 60 seconds old.
C3_WindowAtMostOneOver ==
    /\ Len(_req_times) <= MAX_RPM + 1
    /\ Len(_req_times) > MAX_RPM => clock - Head(_req_times) > WINDOW

C3_Witness == Len(_req_times) = MAX_RPM + 1

\* C4: an acquire sleeps exactly when the window, pruned, holds 55 timestamps
\* (the admissions of the last 60 seconds, never more), and a caller that
\* slept is admitted only once the oldest of them is more than 60 seconds old.
C4_DelayedIffWindowFull ==
    \A w \in Workers :
        acq[w].decided =>
            /\ acq[w].slept <=> acq[w].held = MAX_RPM
            /\ acq[w].held <= MAX_RPM
            /\ acq[w].held = acq[w].prior
            /\ (acq[w].slept /\ acq[w].at >= 0) => acq[w].at - acq[w].oldest > WINDOW
            /\ (acq[w].slept /\ acq[w].at >= 0) => acq[w].at > acq[w].dec
            /\ (~acq[w].slept /\ acq[w].at >= 0) => acq[w].at = acq[w].dec

\* the 56th of 56 acquires made in the same second: 55 admissions were in the
\* window, and it was admitted 61 seconds after the oldest
C4_Witness ==
    \E w \in Workers :
        /\ acq[w].slept /\ acq[w].prior = MAX_RPM /\ acq[w].oldest = 0
        /\ acq[w].at = WAIT_BASE
        /\ \E v \in Workers \ {w} : started[v] > 0


(***************************************************************************)
(* The cache's and the fetch pipeline's claims.                            *)
(***************************************************************************)

\* the claims' "fresh entry": present, younger than its class's duration, and
\* holding a value
Fresh(k) ==
    /\ CACHE[k].present
    /\ clock - CACHE[k].cached_time < CACHE_DURATION[k[1]]
    /\ CACHE[k].data # None

\* C5: two calls of fetch_api(e, c), the second within the TTL of c after the
\* first, issue exactly one upstream request.  Stated for the case that favours
\* the claim most: the first call went upstream and was answered at its first
\* attempt, so the one request is spent and the second call must send none.
C5_TwoCallsOneRequest ==
    \A w \in Workers :
        (last[w].prev.within /\ last[w].prev.kind = "fetched" /\ last[w].prev.nreq = 1)
            => /\ last[w].kind = "cached"
               /\ last[w].prev.nreq + last[w].nreq = 1

\* where the code does as C5 says: the first call's answer was a JSON value
\* other than null and the entry holds such a value as the second call starts
FetchedValueThenHit ==
    \A w \in Workers :
        LET clean(prev) == /\ prev.within /\ prev.kind = "fetched" /\ prev.nreq = 1
                           /\ prev.nonnull /\ prev.live
        IN /\ clean(call[w].prev) => pc[w] = "idle"
           /\ clean(last[w].prev) => /\ last[w].kind = "cached"
                                     /\ last[w].prev.nreq + last[w].nreq = 1

\* the worker whose fetch_api call starts in this step, and the call's key
Calling(w) == started'[w] = started[w] + 1

CalledKey(w) == IF pc'[w] = "idle" THEN last'[w].key ELSE call'[w].key

LooksUp(k) == last' # last /\ last'[1].kind = "lookup" /\ last'[1].key = k

\* C7: for every cache class c, get_from_cache returns the stored value
\* exactly when now - cachedAt < duration(c), strictly, and None otherwise;
\* the call leaves the entry, stale or not, in CACHE.
C7_FreshIffYounger ==
    [][\A k \in Keys :
          LooksUp(k)
              => /\ last'[1].value =
                       IF /\ CACHE[k].present
                          /\ clock - CACHE[k].cached_time < CACHE_DURATION[k[1]]
                       THEN CACHE[k].data
                       ELSE None
                 /\ CACHE' = CACHE]_vars

\* a lookup of an entry with a value, exactly duration(c) old: reported
\* absent, still stored
C7_Witness ==
    \E k \in Keys :
        /\ CACHE[k].present /\ CACHE[k].data # None /\ CACHE[k].cached_time > 0
        /\ clock - CACHE[k].cached_time = CACHE_DURATION[k[1]]
        /\ last[1].kind = "lookup" /\ last[1].key = k /\ last[1].end = clock
        /\ last[1].value = None

\* the step in which worker w's call returns after its attempts all failed
GivesUp(w) == pc[w] = "exhausted" /\ pc'[w] = "idle"

\* C8: when all 3 attempts of a call fail and CACHE holds an entry for the
\* key, however old, fetch_api returns the entry's value, not an error payload.
C8_StaleFallback ==
    [][\A w \in Workers :
          (GivesUp(w) /\ CACHE[call[w].key].present)
              => /\ call[w].nreq = ATTEMPTS
                 /\ last'[w].kind = "stale"
                 /\ last'[w].value = CACHE[call[w].key].data
                 /\ last'[w].message = ""]_vars

\* an expired entry served after three failed attempts
C8_Witness ==
    \E w \in Workers :
        /\ last[w].kind = "stale" /\ last[w].nreq = ATTEMPTS
        /\ last[w].value # None
        /\ last[w].end - CACHE[last[w].key].cached_time >= CACHE_DURATION[last[w].key[1]]

\* a description of the error an attempt ended with
Describe(out) ==
    CASE out = "transport" -> "Read timed out."
      [] out = "http" -> "500 Server Error"
      [] out = "json" -> "Expecting value"
      [] out = "limited" -> "403/429 rejected"

\* C9: a call for a key with no entry whose 3 attempts all fail, whatever the
\* kinds of failure, returns the error payload with the description of the
\* last attempt's error as its message.
C9_ErrorPayloadLastError ==
    [][\A w \in Workers :
          (GivesUp(w) /\ ~CACHE[call[w].key].present)
              => /\ last'[w].kind = "error"
                 /\ last'[w].message # ""
                 /\ last'[w].message = Describe(call[w].last_out)]_vars

\* C10: every fetch_api call returns in the end, having sent at most 3
\* upstream requests; what it returns is the fetched JSON, a fresh cached
\* value, a stale cached value or the error payload; and every answer of the
\* upstream, failures included, is handled inside the call.
C10_EveryCallReturns ==
    /\ [](\A w \in Workers :
            /\ call[w].nreq <= ATTEMPTS /\ call[w].attempt <= ATTEMPTS
            /\ last[w].nreq <= ATTEMPTS
            /\ last[w].kind \in {"none", "fetched", "cached", "stale", "error"}
            /\ last[w].kind = "error" <=> last[w].value = "error"
            /\ last[w].kind = "cached" => last[w].nreq = 0
            /\ last[w].kind \in {"stale", "error"} => last[w].nreq = ATTEMPTS
            /\ pc[w] = "request" =>
                  \A resp \in Responses :
                      (Outcome(resp) = "ok" \/ failures < MaxFailures)
                          => ENABLED Request(w, resp))
    /\ \A w \in Workers : (pc[w] # "idle") ~> (pc[w] = "idle")

\* a call that returned the error payload after three rejections and their
\* sleeps of 6, 12 and 18 seconds
C10_Witness ==
    \E w \in Workers :
        /\ last[w].kind = "error" /\ last[w].nreq = ATTEMPTS
        /\ last[w].end >= LimitedWait(0) + LimitedWait(1) + LimitedWait(2)

(***************************************************************************)
(* The retry loop's claims.                                                *)
(***************************************************************************)

\* the step in which worker w's attempt is answered and lands at position to
Attempt(w, to) == pc[w] = "request" /\ pc'[w] = to

\* the step in which worker w's sleep at position from ends
Wakes(w, from) == pc[w] = from /\ pc'[w] # from

\* C11: an attempt answered 2xx with a valid JSON body stores the parsed value
\* in CACHE under the call's key, with the call's class and the current time,
\* and returns that value at once: no further attempt, no sleep.
C11_SuccessStoresAndReturns ==
    [][\A w \in Workers :
          /\ (pc[w] = "request" /\ pc'[w] # "request")
                => \A resp \in Responses :
                      (Outcome(resp) = "ok" /\ Request(w, resp))
                          => /\ pc'[w] = "idle"
                             /\ last'[w].kind = "fetched"
                             /\ last'[w].value = ParseJson(resp.body)
          /\ Attempt(w, "idle")
                => LET k == call[w].key
                   IN /\ CACHE'[k] = [present |-> TRUE, cached_time |-> clock,
                                      cache_type |-> k[1], data |-> last'[w].value]
                      /\ \A j \in Keys \ {k} : CACHE'[j] = CACHE[j]
                      /\ last'[w].key = k /\ last'[w].kind = "fetched"
                      /\ last'[w].nreq = call[w].nreq + 1
                      /\ last'[w].sleeps = call[w].sleeps
                      /\ last'[w].end = clock
                      /\ wake' = wake /\ clock' = clock
                      /\ Count(requested') <= Count(requested) + 1]_vars

\* a value fetched at the second attempt, stored at that time
C11_Witness ==
    \E w \in Workers :
        /\ last[w].kind = "fetched" /\ last[w].nreq = 2 /\ last[w].end > 0
        /\ last[w].value # None
        /\ CACHE[last[w].key] = [present |-> TRUE, cached_time |-> last[w].end,
                                 cache_type |-> last[w].key[1],
                                 data |-> last[w].value]

\* the part of C12 shared by its two readings: a 403 or 429 answer on attempt
\* index i uses up the attempt and is followed by a sleep of (i+1)*6 seconds
LimitedSleeps(w) ==
    /\ (pc[w] = "request" /\ pc'[w] # "request")
          => \A resp \in Responses :
                (RateLimited(resp) /\ Request(w, resp)) => pc'[w] = "limited_sleep"
    /\ Attempt(w, "limited_sleep")
          => LET i == call[w].attempt
             IN /\ i \in 0 .. ATTEMPTS - 1
                /\ wake'[w] = clock + (i + 1) * 6
                /\ call'[w].sleeps = Append(call[w].sleeps, (i + 1) * 6)
                /\ call'[w].nreq = call[w].nreq + 1
                /\ call'[w].nreq = i + 1
                /\ CACHE' = CACHE
    /\ Wakes(w, "limited_sleep")
          => /\ clock >= wake[w]
             /\ call'[w].attempt = call[w].attempt + 1

\* C12 as stated: every 403/429 answer, on attempt index 0, 1 or 2, is
\* followed by its sleep and then a retry.
C12_LimitedSleepThenRetry ==
    [][\A w \in Workers :
          /\ LimitedSleeps(w)
          /\ Wakes(w, "limited_sleep") => pc'[w] = "request"]_vars

\* C12 as amended: the sleep is followed by a retry on attempt index 0 and 1;
\* after the third attempt's 18 seconds the call gives up with no retry.
C12_LimitedSleepThenRetryOrGiveUp ==
    [][\A w \in Workers :
          /\ LimitedSleeps(w)
          /\ Wakes(w, "limited_sleep")
                => pc'[w] = IF call[w].attempt < ATTEMPTS - 1 THEN "request"
                            ELSE "exhausted"]_vars

\* rejected on attempts 1 and 2, answered on attempt 3: the payload is
\* returned after exactly two sleeps, of 6 then 12 seconds
C12_Witness ==
    \E w \in Workers :
        /\ last[w].kind = "fetched" /\ last[w].nreq = ATTEMPTS
        /\ last[w].sleeps = <<6, 12>>
        /\ last[w].value # None

\* C13: an attempt that fails with a transport error, a status outside 2xx
\* other than 403/429, or a malformed body is followed by a flat 3-second
\* sleep and the next attempt when it is attempt 1 or 2, and by no sleep when
\* it is the 3rd.
C13_ErrorSleepFlat ==
    [][\A w \in Workers :
          /\ (pc[w] = "request" /\ pc'[w] # "request")
                => \A resp \in Responses :
                      (/\ Outcome(resp) \in {"transport", "http", "json"}
                       /\ Request(w, resp))
                          => pc'[w] = IF call[w].attempt < 2 THEN "error_sleep"
                                      ELSE "exhausted"
          /\ Attempt(w, "error_sleep")
                => /\ call[w].attempt \in {0, 1}
                   /\ wake'[w] = clock + 3
                   /\ call'[w].sleeps = Append(call[w].sleeps, 3)
                   /\ call'[w].last_error # None
          /\ Wakes(w, "error_sleep")
                => /\ clock >= wake[w]
                   /\ pc'[w] = "request"
                   /\ call'[w].attempt = call[w].attempt + 1
          /\ Attempt(w, "exhausted")
                => /\ call[w].attempt = 2
                   /\ call'[w].sleeps = call[w].sleeps
                   /\ wake' = wake /\ clock' = clock]_vars

\* three failed attempts with two sleeps of 3 seconds: the call has given up
\* 6 seconds after its first request
C13_Witness ==
    \E w \in Workers :
        /\ last[w].kind \in {"error", "stale"}
        /\ last[w].sleeps = <<3, 3>>
        /\ last[w].nreq = ATTEMPTS

\* C14: a call whose attempts all fail leaves CACHE as it was: entries are
\* written by successful fetches only, under the fetching call's key, and the
\* error payload is never an entry's value.
C14_FailuresLeaveCache ==
    /\ [][/\ \A w \in Workers : GivesUp(w) => CACHE' = CACHE
          /\ \A w \in Workers :
                (\E to \in {"limited_sleep", "error_sleep", "exhausted"} :
                    Attempt(w, to)) => CACHE' = CACHE
          /\ CACHE' # CACHE
                => \E w \in Workers :
                      /\ Attempt(w, "idle") /\ last'[w].kind = "fetched"
                      /\ \A j \in Keys \ {call[w].key} : CACHE'[j] = CACHE[j]]_vars
    /\ [](\A k \in Keys : CACHE[k].present => CACHE[k].data # "error")

\* a call that gave up after three failures, for a key never written, and one
\* that gave up with the entry written before it began still in place
C14_Witness ==
    \E w \in Workers :
        /\ last[w].nreq = ATTEMPTS
        /\ \/ last[w].kind = "error" /\ ~CACHE[last[w].key].present
           \/ /\ last[w].kind = "stale"
              /\ CACHE[last[w].key].data = last[w].value
              /\ CACHE[last[w].key].cached_time < last[w].end

(***************************************************************************)
(* The claims about concurrent fetch_api calls.                            *)
(***************************************************************************)

\* worker w is in a time.sleep that is not over
Asleep(w) ==
    /\ pc[w] \in {"rl_sleep", "limited_sleep", "error_sleep"}
    /\ wake[w] > clock

\* C17: while a worker sleeps in the rate limiter's wait or in a retry
\* backoff, no other worker with a step of fetch_api to take, entering
\* _rate_limit_wait included, is kept from taking it.
C17_SleeperBlocksNoOther ==
    \A w \in Workers : \A v \in Workers \ {w} :
        (Asleep(w) /\ pc[v] # "idle" /\ ~Asleep(v)) => ENABLED WorkerStep(v)

\* where the code does as C17 says: during a retry backoff, and for workers
\* that do not need the limiter
BackoffBlocksNoOther ==
    \A w \in Workers : \A v \in Workers \ {w} :
        (/\ Asleep(w) /\ pc[v] # "idle" /\ ~Asleep(v)
         /\ pc[w] # "rl_sleep" \/ pc[v] # "rate_limit")
            => ENABLED WorkerStep(v)

\* C18: nothing joins concurrent calls for one key: each call that misses
\* takes its own admission and sends its own request, and each successful
\* fetch writes the key's one entry over whatever is there, so the entry is
\* the value of the fetch that wrote last.
C18_LastWriteWins ==
    /\ [][\A w \in Workers :
            Attempt(w, "idle")
                => /\ CACHE'[call[w].key].data = last'[w].value
                   /\ CACHE'[call[w].key].cached_time = clock
                   /\ acq[w].at >= 0]_vars
    /\ [](\A w \in Workers :
            /\ pc[w] \in {"request", "limited_sleep", "error_sleep", "exhausted"}
                  => acq[w].at >= 0
            /\ last[w].kind = "fetched"
                  => /\ CACHE[last[w].key].present
                     /\ CACHE[last[w].key].cached_time >= last[w].end
                     /\ CACHE[last[w].key].cached_time = last[w].end
                           => \/ CACHE[last[w].key].data = last[w].value
                              \/ \E v \in Workers \ {w} :
                                    /\ last[v].kind = "fetched"
                                    /\ last[v].key = last[w].key
                                    /\ last[v].end = last[w].end
                                    /\ last[v].value = CACHE[last[w].key].data)

\* two first calls for one cold key, both of which missed and fetched, with
\* different values; the entry is the value of the later one
C18_Witness ==
    \E w \in Workers : \E v \in Workers \ {w} :
        /\ started[w] = 1 /\ started[v] = 1
        /\ last[w].kind = "fetched" /\ last[v].kind = "fetched"
        /\ last[w].key = last[v].key
        /\ last[w].value # None /\ last[v].value # None
        /\ last[w].value # last[v].value
        /\ last[w].end < last[v].end
        /\ last[v].end - last[w].end < CACHE_DURATION[last[w].key[1]]
        /\ CACHE[last[v].key].data = last[v].value

(***************************************************************************)
(* The image proxy's claims.                                               *)
(***************************************************************************)

\* the step in which worker w's proxy_image request is answered
Answers(w) == ipc[w] # "idle" /\ ipc'[w] = "idle"

\* C15: with the image routes handled one request at a time, a request for a
\* url with no unexpired entry that the remote answers returns MISS and stores
\* an entry with hits = 0; a request for a url whose entry is less than 6
\* hours old returns HIT with the entry's bytes and mimetype and adds exactly
\* 1 to its hits; a MISS never adds to hits.
C15_MissStoresHitCounts ==
    /\ [][\A w \in Workers :
            /\ \A resp \in ImgResponses :
                  (ipc[w] = "fetch" /\ resp.kind = "ok" /\ ImgFetch(w, resp))
                      => /\ ~ireq[w].fresh
                         /\ iresp'[w].status = 200 /\ iresp'[w].xcache = "MISS"
                         /\ iresp'[w].content = resp.content
                         /\ IMAGE_CACHE'[ireq[w].url].content = resp.content
                         /\ IMAGE_CACHE'[ireq[w].url].cached_at = clock
                         /\ IMAGE_CACHE'[ireq[w].url].hits = 0
            /\ (Answers(w) /\ ireq[w].fresh)
                  => LET u == ireq[w].url
                     IN /\ iresp'[w].status = 200 /\ iresp'[w].xcache = "HIT"
                        /\ iresp'[w].nreq = 0
                        /\ iresp'[w].content = IMAGE_CACHE[u].content
                        /\ iresp'[w].mimetype = IMAGE_CACHE[u].mimetype
                        /\ IMAGE_CACHE' = [IMAGE_CACHE EXCEPT ![u].hits = @ + 1]
            /\ (Answers(w) /\ ~ireq[w].fresh)
                  => /\ iresp'[w].xcache # "HIT"
                     /\ \A u \in DOMAIN IMAGE_CACHE' :
                           \/ IMAGE_CACHE'[u].hits = 0
                           \/ /\ u \in DOMAIN IMAGE_CACHE
                              /\ IMAGE_CACHE'[u] = IMAGE_CACHE[u]]_vars
    /\ [](\A u \in DOMAIN IMAGE_CACHE : IMAGE_CACHE[u].hits = served[u])

\* the second HIT of an entry, served in the last second of its 6 hours
C15_Witness ==
    \E w \in Workers :
        /\ iresp[w].xcache = "HIT" /\ iresp[w].url \in DOMAIN IMAGE_CACHE
        /\ IMAGE_CACHE[iresp[w].url].hits = 2
        /\ clock - IMAGE_CACHE[iresp[w].url].cached_at = IMAGE_CACHE_DURATION - 1

\* C16: a proxy_image request whose fetch fails answers 504 (timeout) or 500
\* (any other error) after that one request, with no retry, leaves
\* IMAGE_CACHE unchanged and serves no entry, expired or not; entries are
\* created by successful fetches only.
C16_FetchFailureNoFallback ==
    [][/\ \A w \in Workers, resp \in ImgResponses :
             (ipc[w] = "fetch" /\ resp.kind # "ok" /\ ImgFetch(w, resp))
                 => /\ ipc'[w] = "idle"
                    /\ iresp'[w].status = IF resp.kind = "Timeout" THEN 504 ELSE 500
                    /\ iresp'[w].xcache = "" /\ iresp'[w].content = ""
                    /\ iresp'[w].error # ""
                    /\ iresp'[w].nreq = 1
                    /\ IMAGE_CACHE' = IMAGE_CACHE
       /\ \A u \in DOMAIN IMAGE_CACHE' :
             (u \notin DOMAIN IMAGE_CACHE \/ IMAGE_CACHE'[u].gen # IMAGE_CACHE[u].gen)
                 => \E w \in Workers :
                       /\ Answers(w) /\ ireq[w].url = u
                       /\ iresp'[w].xcache = "MISS"]_vars

\* a timeout answered 504 while the url's expired entry is in IMAGE_CACHE
C16_Witness ==
    \E w \in Workers :
        /\ iresp[w].status = 504 /\ iresp[w].had /\ ~iresp[w].fresh
        /\ iresp[w].url \in DOMAIN IMAGE_CACHE
        /\ clock - IMAGE_CACHE[iresp[w].url].cached_at >= IMAGE_CACHE_DURATION

\* C19: under any interleaving of proxy_image requests for a cached, unexpired
\* url, with no refetch or clear in between, the entry's hits, and with it
\* the total_hits of image_cache_stats, is the number of HIT responses served
\* from the entry.
C19_NoHitLost ==
    AllImgIdle
        => /\ \A u \in DOMAIN IMAGE_CACHE : IMAGE_CACHE[u].hits = served[u]
           /\ TotalHits = Sum(served, DOMAIN IMAGE_CACHE)

\* C20: under any interleaving of proxy_image requests with clear_image_cache,
\* a request carrying a url ends in HIT, MISS, the 504 timeout error or a 500
\* fetch / internal error, never in an unhandled fault.
C20_DefinedOutcome ==
    \A w \in Workers :
        (iresp[w].route = "proxy" /\ iresp[w].url # "")
            => /\ ~iresp[w].fault
               /\ \/ iresp[w].status = 200 /\ iresp[w].xcache \in {"HIT", "MISS"}
                  \/ iresp[w].status = 504 /\ iresp[w].error = "Request timeout"
                  \/ /\ iresp[w].status = 500
                     /\ iresp[w].error \in {"Failed to fetch image", "Internal error"}

====
